---- MODULE Spec2Model ----
(***************************************************************************)
(* Model of sagemaker-notebook.ipynb: the notebook's code cells executed   *)
(* top to bottom ("Run All").  One action per code cell.  An exception     *)
(* that leaves a cell stops the run; a "!" shell escape never raises.      *)
(*                                                                         *)
(* Strings are sequences of tokens (<<"model", ".", "tar", ".", "gz">> is  *)
(* "model.tar.gz"); the separators "/" and "." are tokens of their own, so *)
(* split, glob and prefix/suffix tests are computed, not looked up.        *)
(***************************************************************************)
EXTENDS Integers, Sequences, FiniteSets, TLC

VARIABLES pc, err, calls, raised,
          sagemaker_session_bucket, sess_bucket, role,
          HF_MODEL_ID, model_tar_dir, model_dir, downloaded,
          archive, tar_exit,
          s3_model_uri, s3_object,
          llm_image, number_of_gpu, config, llm_model,
          load_time, llm, endpoint, model_registered,
          res, response

vars == <<pc, err, calls, raised,
          sagemaker_session_bucket, sess_bucket, role,
          HF_MODEL_ID, model_tar_dir, model_dir, downloaded,
          archive, tar_exit,
          s3_model_uri, s3_object,
          llm_image, number_of_gpu, config, llm_model,
          load_time, llm, endpoint, model_registered,
          res, response>>

-----------------------------------------------------------------------------
(* Bounds of the model *)

\* GPU counts tried for number_of_gpu are 0..MaxGpu (two-digit values included)
MaxGpu == 12

-----------------------------------------------------------------------------
(* String helpers *)

\* Python None / a variable not assigned yet
None == <<>>

StartsWith(s, p) == /\ Len(p) <= Len(s)
                    /\ SubSeq(s, 1, Len(p)) = p

EndsWith(s, p) == /\ Len(p) <= Len(s)
                  /\ SubSeq(s, Len(s) - Len(p) + 1, Len(s)) = p

Contains(s, p) == \E i \in 1..(Len(s) - Len(p) + 1) : SubSeq(s, i, i + Len(p) - 1) = p

\* positions of the separator sep in s
SepPositions(s, sep) == {i \in 1..Len(s) : s[i] = sep}

\* s.split(sep)[-1]: what follows the last separator (all of s when there is none)
LastSegment(s, sep) ==
    LET P == SepPositions(s, sep)
        last == IF P = {} THEN 0 ELSE CHOOSE i \in P : \A j \in P : j <= i
    IN SubSeq(s, last + 1, Len(s))

\* what precedes the first separator (all of s when there is none)
FirstSegment(s, sep) ==
    LET P == SepPositions(s, sep)
        first == IF P = {} THEN Len(s) + 1 ELSE CHOOSE i \in P : \A j \in P : i <= j
    IN SubSeq(s, 1, first - 1)

-----------------------------------------------------------------------------
(* Inputs of a run *)

\* model identifiers HF_MODEL_ID may be set to; the first is the one in the cell
ModelIds == { <<"HuggingFaceH4", "/", "starchat-beta">>,
              <<"google", "/", "flan-ul2">>,
              <<"acme", "/", "gz">> }

\* bucket the session falls back to when no name is given
AccountDefaultBucket == <<"sagemaker-us-east-1-111122223333">>

\* values of sagemaker_session_bucket: None (as in the cell) or a given name
BucketSettings == { None, <<"my-llm-bucket">> }

\* file paths, relative to the model directory
ConfigJson       == <<"config", ".", "json">>
WeightFile       == <<"model", ".", "safetensors">>
GitAttributes    == <<".", "gitattributes">>
BinWeights       == <<"pytorch_model", ".", "bin">>
NestedWeights    == <<"onnx", "/", "model", ".", "safetensors">>
WeightDirMember  == <<"shards", ".", "safetensors", "/", "index", ".", "json">>
ArchiveName      == <<"model", ".", "tar", ".", "gz">>

\* files a model repository may hold at the revision
RepoUniverse == {ConfigJson, WeightFile, GitAttributes, BinWeights, NestedWeights, WeightDirMember}

\* files that may already be in the model directory (mkdir(exist_ok=True) keeps them)
LeftOver == {ArchiveName, WeightFile}

\* seconds the container may need until it passes its health check
LoadTimes == {120, 600}

-----------------------------------------------------------------------------
(* Control flow: exceptions *)

\* a call with its result: r = "ok" or the exception it raised
Call(c, r) == [c |-> c, r |-> r]

NoErr == Call("", "ok")

\* variant: a bare "except:" around get_execution_role
Caught_any(call) == call.c = "get_execution_role" /\ call.r # "ok"

\* the only handler of the notebook: try get_execution_role / except ValueError
Caught(call) == call.c = "get_execution_role" /\ call.r = "ValueError"

Propagates(call) == call.r # "ok" /\ ~Caught(call)

\* variant: every statement of the cell runs, an exception skips nothing
Executed_all(stmts) == stmts

\* the statements of a cell that execute: all of them up to and including the
\* first whose exception propagates
Executed(stmts) ==
    LET F == {i \in 1..Len(stmts) : Propagates(stmts[i])}
    IN IF F = {} THEN stmts
       ELSE SubSeq(stmts, 1, CHOOSE i \in F : \A j \in F : i <= j)

\* the exception that leaves the cell, NoErr if none
Failure(stmts) ==
    LET ex == Executed(stmts)
    IN IF ex # <<>> /\ Propagates(ex[Len(ex)]) THEN ex[Len(ex)] ELSE NoErr

Returned(stmts, c) == \E i \in 1..Len(Executed(stmts)) :
                         Executed(stmts)[i].c = c /\ Executed(stmts)[i].r = "ok"

RECURSIVE Raising(_)
Raising(stmts) == IF stmts = <<>> THEN <<>>
                  ELSE (IF Head(stmts).r # "ok" THEN <<Head(stmts)>> ELSE <<>>)
                       \o Raising(Tail(stmts))

\* the external calls among the statements (assert is a statement, not a call)
RECURSIVE CallsOf(_)
CallsOf(stmts) == IF stmts = <<>> THEN <<>>
                  ELSE (IF Head(stmts).c # "assert" THEN <<Head(stmts).c>> ELSE <<>>)
                       \o CallsOf(Tail(stmts))

\* variant: the run goes on with the next cell after an exception
Finish_on_error(stmts, next) ==
    /\ calls' = calls \o CallsOf(Executed(stmts))
    /\ raised' = raised \o Raising(Executed(stmts))
    /\ err' = Failure(stmts)
    /\ pc' = next

\* bookkeeping common to every cell: log the calls made, stop the run on an
\* exception that leaves the cell, otherwise go on with the next cell
Finish(stmts, next) ==
    /\ calls' = calls \o CallsOf(Executed(stmts))
    /\ raised' = raised \o Raising(Executed(stmts))
    /\ err' = Failure(stmts)
    /\ pc' = IF Failure(stmts) = NoErr THEN next ELSE "failed"

-----------------------------------------------------------------------------
(* Local file system, glob patterns, tar *)

\* names of the entries directly in the directory (files and sub-directories)
TopLevel(dir) == {FirstSegment(p, "/") : p \in dir}

IsDir(dir, name) == \E p \in dir : StartsWith(p, name \o <<"/">>)

\* variant: a recursive glob (rglob), matching at any depth
PathGlob_recursive(dir, suffix) == {p \in dir : EndsWith(p, suffix)}

\* Path.glob("*" + suffix): top-level entries of any kind whose name ends with
\* the suffix; a leading dot is not special to pathlib
PathGlob(dir, suffix) == {n \in TopLevel(dir) : EndsWith(n, suffix)}

\* ignore_patterns=["*.msgpack*", "*.h5*", "*.bin*"], matched against the path
Ignored(p) == \/ Contains(p, <<".", "msgpack">>)
              \/ Contains(p, <<".", "h5">>)
              \/ Contains(p, <<".", "bin">>)

\* the shell's expansion of *: top-level entries whose name has no leading dot
ShellStar(dir) == {n \in TopLevel(dir) : n[1] # "."}

\* members tar writes for its arguments: a file as itself, a directory as
\* "name/" followed by everything below it
TarMembers(args, dir) ==
    UNION { IF IsDir(dir, a)
            THEN {a \o <<"/">>} \cup {p \in dir : StartsWith(p, a \o <<"/">>)}
            ELSE {a} : a \in args }

\* content of a model.tar.gz file
Archive(members, complete) == [exists |-> TRUE, members |-> members, complete |-> complete]

NoArchive == [exists |-> FALSE, members |-> {}, complete |-> FALSE]

\* a model.tar.gz written by an earlier run
StaleArchive == Archive({ConfigJson, WeightFile}, TRUE)

\* exit statuses of the "!tar ..." line
TarExits == {0, 2, 127}

\* the model.tar.gz in the directory after "tar -cf model.tar.gz
\* --use-compress-program=pigz *" ended with the exit status:
\*   0    every member written
\*   2    no argument matched, or pigz missing or failed: the file was
\*        created, nothing usable in it
\*   127  tar itself not found: the file is as it was before
TarResult(exit, dir, before) ==
    IF exit = 0 THEN Archive(TarMembers(ShellStar(dir), dir), TRUE)
    ELSE IF exit = 2 THEN Archive({}, FALSE)
    ELSE before

-----------------------------------------------------------------------------
(* Values computed by the notebook *)

S3Scheme == <<"s3:", "/", "/">>

\* f"s3://{sess.default_bucket()}/starchat-beta"
DesiredS3Uri(bucket) == S3Scheme \o bucket \o <<"/", "starchat-beta">>

\* str(model_tar_dir.joinpath("model.tar.gz"))
LocalArchivePath(dir) == dir \o <<"/">> \o ArchiveName

\* variant: the desired URI itself is returned
UploadedUri_prefix(local_path, desired_s3_uri) == desired_s3_uri

\* S3Uploader.upload of one file: the URI of the uploaded object, which is the
\* desired URI followed by the file's base name
UploadedUri(local_path, desired_s3_uri) ==
    desired_s3_uri \o <<"/">> \o LastSegment(local_path, "/")

Digit(d) == CASE d = 0 -> "0" [] d = 1 -> "1" [] d = 2 -> "2" [] d = 3 -> "3"
              [] d = 4 -> "4" [] d = 5 -> "5" [] d = 6 -> "6" [] d = 7 -> "7"
              [] d = 8 -> "8" [] d = 9 -> "9"

\* variant: digits emitted least significant first
RECURSIVE json_dumps_reversed(_)
json_dumps_reversed(n) == IF n < 0 THEN <<"-">> \o json_dumps_reversed(-n)
                          ELSE IF n < 10 THEN <<Digit(n)>>
                          ELSE <<Digit(n % 10)>> \o json_dumps_reversed(n \div 10)

\* json.dumps of an int: its decimal text
RECURSIVE json_dumps(_)
json_dumps(n) == IF n < 0 THEN <<"-">> \o json_dumps(-n)
                 ELSE IF n < 10 THEN <<Digit(n)>>
                 ELSE json_dumps(n \div 10) \o <<Digit(n % 10)>>

health_check_timeout == 300

MaxInputLength == 1024

MaxTotalTokens == 2048

\* config = {...}
Config(gpus) == [HF_MODEL_ID      |-> <<"/", "opt", "/", "ml", "/", "model">>,
                 SM_NUM_GPUS      |-> json_dumps(gpus),
                 MAX_INPUT_LENGTH |-> json_dumps(MaxInputLength),
                 MAX_TOTAL_TOKENS |-> json_dumps(MaxTotalTokens)]

LlmImage == <<"huggingface-pytorch-tgi-inference", ":", "0.8.2">>

RoleArn == <<"arn:aws:iam::111122223333:role", "/", "sagemaker_execution_role">>

FallbackRoleArn == <<"arn:aws:iam::111122223333:role", "/", "sagemaker_execution_role", "#", "iam.get_role">>

EndpointHandle == <<"huggingface-pytorch-tgi-inference-endpoint">>

GeneratedText == <<"generated_text">>

EmptyMap == [k \in {} |-> None]

\* results of an external call: it returns, or raises an SDK error
Outcomes == {"ok", "ClientError"}

\* get_execution_role raises ValueError when it finds no role
RoleOutcomes == Outcomes \cup {"ValueError"}

\* an IPython "!" line evaluates normally whatever the command's exit status
ShellEscape(exit) == "ok"

\* variant: no health-check timeout is applied
DeployResult_no_timeout(o, t, timeout) == o

\* result of llm_model.deploy: a request error creates nothing; otherwise the
\* platform waits for the container's health check up to the timeout
DeployResult(o, t, timeout) ==
    IF o # "ok" THEN o
    ELSE IF t > timeout THEN "UnexpectedStatusException"
    ELSE "ok"

-----------------------------------------------------------------------------
(* State *)

Init ==
    /\ pc = "install"
    /\ err = NoErr
    /\ calls = <<>>
    /\ raised = <<>>
    /\ sagemaker_session_bucket = None
    /\ sess_bucket = None
    /\ role = None
    /\ HF_MODEL_ID = None
    /\ model_tar_dir = None
    /\ model_dir \in SUBSET LeftOver
    /\ downloaded = {}
    /\ archive = IF ArchiveName \in model_dir THEN StaleArchive ELSE NoArchive
    /\ tar_exit = -1
    /\ s3_model_uri = None
    /\ s3_object = NoArchive
    /\ llm_image = None
    /\ number_of_gpu = -1
    /\ config = EmptyMap
    /\ llm_model = EmptyMap
    /\ load_time = 0
    /\ llm = None
    /\ endpoint = "none"
    /\ model_registered = FALSE
    /\ res = None
    /\ response = None

-----------------------------------------------------------------------------
(* The code cells *)

\* !pip install "sagemaker==2.163.0" "huggingface_hub" "hf-transfer"
InstallCell ==
    /\ pc = "install"
    /\ Finish(<<Call("pip_install", ShellEscape(0))>>, "setup")
    /\ UNCHANGED <<sagemaker_session_bucket, sess_bucket, role,
                   HF_MODEL_ID, model_tar_dir, model_dir, downloaded,
                   archive, tar_exit, s3_model_uri, s3_object,
                   llm_image, number_of_gpu, config, llm_model,
                   load_time, llm, endpoint, model_registered, res, response>>

\* sess, sagemaker_session_bucket, role
SetupCell ==
    /\ pc = "setup"
    /\ \E b \in BucketSettings, o1 \in Outcomes, o2 \in Outcomes,
          o3 \in RoleOutcomes, o4 \in Outcomes, o5 \in Outcomes :
         LET stmts == <<Call("Session", o1)>>
                      \o (IF b = None THEN <<Call("default_bucket", o2)>> ELSE <<>>)
                      \o <<Call("get_execution_role", o3)>>
                      \o (IF Caught(Call("get_execution_role", o3))
                          THEN <<Call("get_role", o4)>> ELSE <<>>)
                      \o <<Call("Session", o5)>>
             bucket == IF b = None /\ Returned(stmts, "default_bucket")
                       THEN AccountDefaultBucket ELSE b
         IN /\ sagemaker_session_bucket' = bucket
            /\ role' = IF Returned(stmts, "get_execution_role") THEN RoleArn
                       ELSE IF Returned(stmts, "get_role") THEN FallbackRoleArn
                       ELSE None
            /\ sess_bucket' = IF Failure(stmts) = NoErr THEN bucket ELSE None
            /\ Finish(stmts, "fetch")
    /\ UNCHANGED <<HF_MODEL_ID, model_tar_dir, model_dir, downloaded,
                   archive, tar_exit, s3_model_uri, s3_object,
                   llm_image, number_of_gpu, config, llm_model,
                   load_time, llm, endpoint, model_registered, res, response>>

\* HF_MODEL_ID, model_tar_dir, snapshot_download, assert
FetchCell ==
    /\ pc = "fetch"
    /\ \E id \in ModelIds, repo \in SUBSET RepoUniverse, o \in Outcomes :
         LET dl == IF o = "ok" THEN {p \in repo : ~Ignored(p)} ELSE {}
             dir == model_dir \cup dl
             found == PathGlob(dir, <<".", "safetensors">>)
             stmts == <<Call("snapshot_download", o),
                        Call("assert", IF Cardinality(found) > 0 THEN "ok"
                                       ELSE "AssertionError: Model download failed")>>
         IN /\ HF_MODEL_ID' = id
            /\ model_tar_dir' = LastSegment(id, "/")
            /\ downloaded' = dl
            /\ model_dir' = dir
            /\ Finish(stmts, "archive")
    /\ UNCHANGED <<sagemaker_session_bucket, sess_bucket, role,
                   archive, tar_exit, s3_model_uri, s3_object,
                   llm_image, number_of_gpu, config, llm_model,
                   load_time, llm, endpoint, model_registered, res, response>>

\* os.chdir(model_tar_dir); !tar -cf model.tar.gz --use-compress-program=pigz *
ArchiveCell ==
    /\ pc = "archive"
    /\ \E exit \in TarExits :
         /\ (exit = 0 => ShellStar(model_dir) # {})
         /\ tar_exit' = exit
         /\ archive' = TarResult(exit, model_dir, archive)
         /\ model_dir' = IF archive'.exists THEN model_dir \cup {ArchiveName} ELSE model_dir
         /\ Finish(<<Call("tar", ShellEscape(exit))>>, "upload")
    /\ UNCHANGED <<sagemaker_session_bucket, sess_bucket, role,
                   HF_MODEL_ID, model_tar_dir, downloaded, s3_model_uri, s3_object,
                   llm_image, number_of_gpu, config, llm_model,
                   load_time, llm, endpoint, model_registered, res, response>>

\* s3_model_uri = S3Uploader.upload(...)
UploadCell ==
    /\ pc = "upload"
    /\ \E o1 \in Outcomes, o2 \in Outcomes :
         LET stmts == <<Call("default_bucket", o1), Call("upload", o2)>>
         IN /\ (o2 = "ok" => archive.exists)
            /\ s3_model_uri' = IF Returned(stmts, "upload")
                               THEN UploadedUri(LocalArchivePath(model_tar_dir),
                                                DesiredS3Uri(sess_bucket))
                               ELSE None
            /\ s3_object' = IF Returned(stmts, "upload") THEN archive ELSE NoArchive
            /\ Finish(stmts, "image")
    /\ UNCHANGED <<sagemaker_session_bucket, sess_bucket, role,
                   HF_MODEL_ID, model_tar_dir, model_dir, downloaded,
                   archive, tar_exit,
                   llm_image, number_of_gpu, config, llm_model,
                   load_time, llm, endpoint, model_registered, res, response>>

\* llm_image = get_huggingface_llm_image_uri("huggingface", version="0.8.2")
ImageCell ==
    /\ pc = "image"
    /\ \E o \in Outcomes :
         LET stmts == <<Call("get_huggingface_llm_image_uri", o)>>
         IN /\ llm_image' = IF Returned(stmts, "get_huggingface_llm_image_uri")
                            THEN LlmImage ELSE None
            /\ Finish(stmts, "config")
    /\ UNCHANGED <<sagemaker_session_bucket, sess_bucket, role,
                   HF_MODEL_ID, model_tar_dir, model_dir, downloaded,
                   archive, tar_exit, s3_model_uri, s3_object,
                   number_of_gpu, config, llm_model,
                   load_time, llm, endpoint, model_registered, res, response>>

\* number_of_gpu, config, llm_model = HuggingFaceModel(...)
ConfigCell ==
    /\ pc = "config"
    /\ \E n \in 0..MaxGpu :
         /\ number_of_gpu' = n
         /\ config' = Config(n)
         /\ llm_model' = [role |-> role, image_uri |-> llm_image,
                          model_data |-> s3_model_uri, env |-> Config(n)]
    /\ Finish(<<>>, "deploy")
    /\ UNCHANGED <<sagemaker_session_bucket, sess_bucket, role,
                   HF_MODEL_ID, model_tar_dir, model_dir, downloaded,
                   archive, tar_exit, s3_model_uri, s3_object, llm_image,
                   load_time, llm, endpoint, model_registered, res, response>>

\* llm = llm_model.deploy(...)
DeployCell ==
    /\ pc = "deploy"
    /\ \E t \in LoadTimes, o \in Outcomes :
         LET stmts == <<Call("deploy", DeployResult(o, t, health_check_timeout))>>
         IN /\ load_time' = IF o = "ok" THEN t ELSE 0
            /\ model_registered' = (o = "ok")
            /\ endpoint' = IF o # "ok" THEN "none"
                           ELSE IF Returned(stmts, "deploy") THEN "InService"
                           ELSE "Failed"
            /\ llm' = IF Returned(stmts, "deploy") THEN EndpointHandle ELSE None
            /\ Finish(stmts, "predict1")
    /\ UNCHANGED <<sagemaker_session_bucket, sess_bucket, role,
                   HF_MODEL_ID, model_tar_dir, model_dir, downloaded,
                   archive, tar_exit, s3_model_uri, s3_object,
                   llm_image, number_of_gpu, config, llm_model, res, response>>

\* res = llm.predict({"inputs": ...})
Predict1Cell ==
    /\ pc = "predict1"
    /\ \E o \in Outcomes :
         LET stmts == <<Call("predict", o)>>
         IN /\ res' = IF Returned(stmts, "predict") THEN GeneratedText ELSE None
            /\ Finish(stmts, "predict2")
    /\ UNCHANGED <<sagemaker_session_bucket, sess_bucket, role,
                   HF_MODEL_ID, model_tar_dir, model_dir, downloaded,
                   archive, tar_exit, s3_model_uri, s3_object,
                   llm_image, number_of_gpu, config, llm_model,
                   load_time, llm, endpoint, model_registered, response>>

\* variant: the second predict is wrapped in try/finally with the teardown calls
Predict2Cell_finally ==
    /\ pc = "predict2"
    /\ \E o \in Outcomes :
         LET stmts == <<Call("predict", o)>>
         IN /\ response' = IF Returned(stmts, "predict") THEN GeneratedText ELSE None
            /\ endpoint' = IF Returned(stmts, "predict") THEN endpoint ELSE "Deleted"
            /\ model_registered' = IF Returned(stmts, "predict") THEN model_registered ELSE FALSE
            /\ Finish(stmts, "cleanup")
    /\ UNCHANGED <<sagemaker_session_bucket, sess_bucket, role,
                   HF_MODEL_ID, model_tar_dir, model_dir, downloaded,
                   archive, tar_exit, s3_model_uri, s3_object,
                   llm_image, number_of_gpu, config, llm_model,
                   load_time, llm, res>>

\* response = llm.predict(payload)
Predict2Cell ==
    /\ pc = "predict2"
    /\ \E o \in Outcomes :
         LET stmts == <<Call("predict", o)>>
         IN /\ response' = IF Returned(stmts, "predict") THEN GeneratedText ELSE None
            /\ Finish(stmts, "cleanup")
    /\ UNCHANGED <<sagemaker_session_bucket, sess_bucket, role,
                   HF_MODEL_ID, model_tar_dir, model_dir, downloaded,
                   archive, tar_exit, s3_model_uri, s3_object,
                   llm_image, number_of_gpu, config, llm_model,
                   load_time, llm, endpoint, model_registered, res>>

\* llm.delete_model(); llm.delete_endpoint()
CleanupCell ==
    /\ pc = "cleanup"
    /\ \E o1 \in Outcomes, o2 \in Outcomes :
         LET stmts == <<Call("delete_model", o1), Call("delete_endpoint", o2)>>
         IN /\ model_registered' = IF Returned(stmts, "delete_model") THEN FALSE
                                   ELSE model_registered
            /\ endpoint' = IF Returned(stmts, "delete_endpoint") THEN "Deleted"
                           ELSE endpoint
            /\ Finish(stmts, "done")
    /\ UNCHANGED <<sagemaker_session_bucket, sess_bucket, role,
                   HF_MODEL_ID, model_tar_dir, model_dir, downloaded,
                   archive, tar_exit, s3_model_uri, s3_object,
                   llm_image, number_of_gpu, config, llm_model,
                   load_time, llm, res, response>>

Next ==
    \/ InstallCell
    \/ SetupCell
    \/ FetchCell
    \/ ArchiveCell
    \/ UploadCell
    \/ ImageCell
    \/ ConfigCell
    \/ DeployCell
    \/ Predict1Cell
    \/ Predict2Cell
    \/ CleanupCell

Spec == Init /\ [][Next]_vars

TypeOK ==
    /\ pc \in {"install", "setup", "fetch", "archive", "upload", "image", "config",
               "deploy", "predict1", "predict2", "cleanup", "done", "failed"}
    /\ endpoint \in {"none", "InService", "Failed", "Deleted"}
    /\ model_registered \in BOOLEAN
    /\ tar_exit \in TarExits \cup {-1}
    /\ number_of_gpu \in -1..MaxGpu

-----------------------------------------------------------------------------
(* Properties *)

InCalls(c) == \E i \in 1..Len(calls) : calls[i] = c

RaisedBy(c) == \E i \in 1..Len(raised) : raised[i].c = c

\* C1 as stated: once teardown has started, delete_endpoint is invoked after
\* delete_model whether delete_model returned or raised.
C1_BothDeletesAttempted ==
    InCalls("delete_model") =>
        /\ Len(calls) >= 2
        /\ SubSeq(calls, Len(calls) - 1, Len(calls)) = <<"delete_model", "delete_endpoint">>

\* C1 amended: delete_endpoint is invoked, right after delete_model, exactly
\* when delete_model returned normally; when delete_model raises, the error
\* ends the run and delete_endpoint is not invoked.
C1_TeardownStopsAtFirstError ==
    InCalls("delete_model") =>
        /\ RaisedBy("delete_model") =>
              /\ ~InCalls("delete_endpoint")
              /\ pc = "failed"
              /\ err.c = "delete_model"
              /\ endpoint = "InService"
        /\ ~RaisedBy("delete_model") =>
              /\ Len(calls) >= 2
              /\ SubSeq(calls, Len(calls) - 1, Len(calls)) = <<"delete_model", "delete_endpoint">>

C1_Witness == RaisedBy("delete_model") /\ pc = "failed" /\ endpoint = "InService"

\* no entry directly in the directory has a name ending in .safetensors
NoTopLevelWeights(dir) ==
    \A p \in dir : ~EndsWith(FirstSegment(p, "/"), <<".", "safetensors">>)

CallsAfterFetch == {"tar", "upload", "get_huggingface_llm_image_uri", "deploy",
                    "predict", "delete_model", "delete_endpoint"}

SourceFiles == model_dir \ {ArchiveName}

\* C3 as stated: whatever is in the model directory, a successfully written
\* archive has exactly the source artifact files as members, each at the root.
C3_ArchiveRoundTrip ==
    tar_exit = 0 =>
        /\ archive.members = SourceFiles
        /\ \A m \in archive.members : ~Contains(m, <<"/">>)

\* C4 as stated: the returned location starts with s3://<bucket>/ and ends
\* with the model's short name.
C4_UriEndsWithShortName ==
    s3_model_uri # None =>
        /\ StartsWith(s3_model_uri, S3Scheme \o sess_bucket \o <<"/">>)
        /\ EndsWith(s3_model_uri, LastSegment(HF_MODEL_ID, "/"))

\* C4 amended: the returned location is s3://<bucket>/starchat-beta/model.tar.gz
\* for every model identifier: it starts with the session's bucket, its key
\* prefix is the literal starchat-beta and it ends with the archive's file name.
C4_UriOfArchive ==
    s3_model_uri # None =>
        /\ sess_bucket = (IF sagemaker_session_bucket = None THEN AccountDefaultBucket
                          ELSE sagemaker_session_bucket)
        /\ sess_bucket # None
        /\ StartsWith(s3_model_uri, S3Scheme \o sess_bucket \o <<"/">>)
        /\ EndsWith(s3_model_uri, <<"/", "starchat-beta", "/", "model", ".", "tar", ".", "gz">>)
        /\ Len(s3_model_uri) = Len(S3Scheme) + Len(sess_bucket) + 8

C4_Witness ==
    /\ s3_model_uri # None
    /\ HF_MODEL_ID = <<"google", "/", "flan-ul2">>
    /\ sess_bucket = <<"my-llm-bucket">>

\* the call at which the run stopped is the last one logged
StoppedAt(call) ==
    /\ pc = "failed"
    /\ err = call
    /\ calls # <<>>
    /\ calls[Len(calls)] = call.c

\* C5 as stated: whichever external call raises, the error ends the run at
\* that call; nothing is caught and no value is substituted.
C5_NothingCaught ==
    \A i \in 1..Len(raised) :
        raised[i].c # "assert" => (i = Len(raised) /\ StoppedAt(raised[i]))

\* C5 amended: every error of an external call ends the run at that call,
\* except a ValueError of get_execution_role, which is caught: the role is then
\* looked up with iam.get_role and the run goes on with that role.
C5_OnlyRoleValueErrorCaught ==
    \A i \in 1..Len(raised) :
        /\ (raised[i].c # "assert" /\ raised[i] # Call("get_execution_role", "ValueError"))
              => (i = Len(raised) /\ StoppedAt(raised[i]))
        /\ raised[i] = Call("get_execution_role", "ValueError")
              => /\ InCalls("get_role")
                 /\ (RaisedBy("get_role") => StoppedAt(Call("get_role", "ClientError")))
                 /\ (~RaisedBy("get_role") => role = FallbackRoleArn)

C5_Witness ==
    /\ Len(raised) = 2
    /\ raised[1] = Call("get_execution_role", "ValueError")
    /\ role = FallbackRoleArn
    /\ StoppedAt(Call("predict", "ClientError"))

\* C6 as stated: when tar/pigz exits with a failure status the run stops at
\* the archive step and upload is not executed.
C6_TarFailureStopsRun ==
    (tar_exit # -1 /\ tar_exit # 0) =>
        /\ ~InCalls("upload")
        /\ (pc # "upload" => pc = "failed")

RECURSIVE DecimalValue(_)
\* the number a sequence of decimal digits denotes
DecimalValue(s) ==
    IF s = <<>> THEN 0
    ELSE 10 * DecimalValue(SubSeq(s, 1, Len(s) - 1))
         + (CHOOSE d \in 0..9 : Digit(d) = s[Len(s)])

IsDecimalText(s) ==
    /\ s # <<>>
    /\ \A i \in 1..Len(s) : \E d \in 0..9 : Digit(d) = s[i]
    /\ (Len(s) > 1 => s[1] # "0")

\* C7: once built, config has exactly the keys HF_MODEL_ID, SM_NUM_GPUS,
\* MAX_INPUT_LENGTH and MAX_TOTAL_TOKENS (no HF_MODEL_QUANTIZE), every value
\* is a string, and SM_NUM_GPUS is the decimal text of number_of_gpu; it is
\* the env of the model.
C7_Config ==
    number_of_gpu # -1 =>
        /\ DOMAIN config = {"HF_MODEL_ID", "SM_NUM_GPUS", "MAX_INPUT_LENGTH", "MAX_TOTAL_TOKENS"}
        /\ \A k \in DOMAIN config : config[k] \in Seq(STRING)
        /\ IsDecimalText(config["SM_NUM_GPUS"])
        /\ DecimalValue(config["SM_NUM_GPUS"]) = number_of_gpu
        /\ (number_of_gpu = 4 => config["SM_NUM_GPUS"] = <<"4">>)
        /\ IsDecimalText(config["MAX_INPUT_LENGTH"])
        /\ DecimalValue(config["MAX_INPUT_LENGTH"]) = MaxInputLength
        /\ IsDecimalText(config["MAX_TOTAL_TOKENS"])
        /\ DecimalValue(config["MAX_TOTAL_TOKENS"]) = MaxTotalTokens
        /\ llm_model.env = config

C7_Witness ==
    /\ number_of_gpu = 4
    /\ config["SM_NUM_GPUS"] = <<"4">>
    /\ InCalls("deploy")

C9_EndpointOutlivesRun ==
    /\ (llm # None /\ ~InCalls("delete_endpoint")) => endpoint = "InService"
    /\ (llm # None /\ ~InCalls("delete_model")) => model_registered
    /\ (pc = "failed" /\ err.c = "predict") => (endpoint = "InService" /\ model_registered)
    /\ endpoint = "Deleted" => (InCalls("delete_endpoint") /\ ~RaisedBy("delete_endpoint"))

C9_Witness ==
    /\ StoppedAt(Call("predict", "ClientError"))
    /\ res # None
    /\ endpoint = "InService"
    /\ model_registered

\* the steps of the pipeline that are external calls, in the order of the cells
PipelineOrder == <<"get_execution_role", "snapshot_download", "tar", "upload",
                   "get_huggingface_llm_image_uri", "deploy", "predict", "predict",
                   "delete_model", "delete_endpoint">>

IsPipelineCall(c) == \E i \in 1..Len(PipelineOrder) : PipelineOrder[i] = c

\* C10: the pipeline's calls are made in the order of the cells, none skipped,
\* each after the previous one returned: deploy only with the URI upload
\* returned, predict only with the handle deploy returned, delete only after
\* both predict calls returned.
C10_SequentialPipeline ==
    LET made == SelectSeq(calls, IsPipelineCall)
    IN /\ Len(made) <= Len(PipelineOrder)
       /\ made = SubSeq(PipelineOrder, 1, Len(made))
       /\ InCalls("snapshot_download") => (role # None /\ sess_bucket # None)
       /\ InCalls("upload") => (InCalls("tar") /\ ~RaisedBy("snapshot_download"))
       /\ InCalls("deploy") => (s3_model_uri # None /\ llm_image # None)
       /\ InCalls("predict") => llm # None
       /\ InCalls("delete_model") => (res # None /\ response # None)
       /\ InCalls("delete_endpoint") => ~RaisedBy("delete_model")

C10_Witness ==
    /\ pc = "done"
    /\ SelectSeq(calls, IsPipelineCall) = PipelineOrder
    /\ endpoint = "Deleted"

====
